---------------------------- MODULE Spec2Model ----------------------------
(***************************************************************************)
(* Model of the news-headline pipeline's processing Lambda                 *)
(* (src/process/app.py, lambda_handler).                                   *)
(*                                                                         *)
(* A Python str is a sequence of characters.  A character is a one-        *)
(* character string; a non-ASCII code point is written as the token        *)
(* "U+XXXX".  A parsed HTML document (a BeautifulSoup tree) is a sequence  *)
(* of nodes, each node a record with its tag, classes, href attribute,     *)
(* children and, for a text node, its text.                                *)
(***************************************************************************)
EXTENDS Integers, Sequences, FiniteSets, TLC

VARIABLES event, s3_objects, now, midnight, i, pc, result, log, puts, s3_final

vars == <<event, s3_objects, now, midnight, i, pc, result, log, puts, s3_final>>

(* ------------------------------ bounds --------------------------------- *)

\* Most records of one S3 event.
MaxRecords == 2

\* Most top-level nodes of a generated document.
MaxNodes == 2

(* --------------------------- characters -------------------------------- *)

AsciiUpperSeq == <<"A", "B", "C", "D", "E", "F", "G", "H", "I", "J", "K", "L", "M", "N", "O", "P", "Q", "R", "S", "T", "U", "V", "W", "X", "Y", "Z">>

AsciiLowerSeq == <<"a", "b", "c", "d", "e", "f", "g", "h", "i", "j", "k", "l", "m", "n", "o", "p", "q", "r", "s", "t", "u", "v", "w", "x", "y", "z">>

DigitSeq == <<"0", "1", "2", "3", "4", "5", "6", "7", "8", "9">>

Range(s) == {s[k] : k \in DOMAIN s}

RECURSIVE join(_)
\* ''.join(pieces): the pieces one after the other.
join(pieces) ==
    IF Len(pieces) = 0 THEN << >>
    ELSE IF Len(pieces) = 1 THEN pieces[1]
    ELSE LET half == Len(pieces) \div 2
         IN  join(SubSeq(pieces, 1, half)) \o join(SubSeq(pieces, half + 1, Len(pieces)))

\* [A-Za-z]
AsciiLetters == Range(AsciiUpperSeq) \cup Range(AsciiLowerSeq)

\* [0-9]
AsciiDigits == Range(DigitSeq)

\* \s of a str pattern, and what str.strip() strips: Unicode whitespace.
Whitespace == {" ", "\t", "\n", "\r", "U+00A0"}

\* Precomposed letters (e-acute, i-acute, n-tilde, A-acute): word characters
\* for \b, and the characters NFD decomposes.
AccentedLetters == {"U+00E9", "U+00ED", "U+00F1", "U+00C1"}

\* The block U+0300-U+036F, as far as the alphabet of the model goes.
CombiningMarks == {"U+0301", "U+0303"}

\* \w of a str pattern.
IsWordChar(c) == c \in AsciiLetters \cup AsciiDigits \cup {"_"} \cup AccentedLetters

\* The lower-case letter of each upper-case one.
LowerOf ==
    [c \in Range(AsciiUpperSeq) |->
        AsciiLowerSeq[CHOOSE k \in DOMAIN AsciiUpperSeq : AsciiUpperSeq[k] = c]]

lower_char(c) == IF c \in DOMAIN LowerOf THEN LowerOf[c] ELSE c

\* str.lower()
lower(s) == [k \in DOMAIN s |-> lower_char(s[k])]

\* str.startswith(prefix)
startswith(s, prefix) ==
    Len(s) >= Len(prefix) /\ SubSeq(s, 1, Len(prefix)) = prefix

\* str.endswith(suffix)
endswith(s, suffix) ==
    Len(s) >= Len(suffix) /\ SubSeq(s, Len(s) - Len(suffix) + 1, Len(s)) = suffix

\* \b between s[k] and s[k+1] (k = 0: the start, k = Len(s): the end).
word_boundary(s, k) ==
    ((k >= 1) /\ IsWordChar(s[k])) # ((k < Len(s)) /\ IsWordChar(s[k + 1]))

\* re.search(r'(?i)\b<word>\b', s) for a lower-case word of word characters.
re_search_word(word, s) ==
    LET folded == lower(s)
    IN  \E p \in 1..(Len(s) - Len(word) + 1) :
            /\ folded[p] = word[1]
            /\ SubSeq(folded, p, p + Len(word) - 1) = word
            /\ word_boundary(s, p - 1)
            /\ word_boundary(s, p + Len(word) - 1)

\* object_key.lower().endswith('.html')
is_html_key(object_key) == endswith(lower(object_key), <<".", "h", "t", "m", "l">>)

\* The branch the if / elif / else on the object key takes.
periodico_of(object_key) ==
    IF re_search_word(<<"e", "l", "t", "i", "e", "m", "p", "o">>, object_key) THEN <<"e", "l", "t", "i", "e", "m", "p", "o">>
    ELSE IF re_search_word(<<"p", "u", "b", "l", "i", "m", "e", "t", "r", "o">>, object_key) THEN <<"p", "u", "b", "l", "i", "m", "e", "t", "r", "o">>
    ELSE << >>

base_url_of(periodico) ==
    IF periodico = <<"e", "l", "t", "i", "e", "m", "p", "o">> THEN <<"h", "t", "t", "p", "s", ":", "/", "/", "w", "w", "w", ".", "e", "l", "t", "i", "e", "m", "p", "o", ".", "c", "o", "m">>
    ELSE <<"h", "t", "t", "p", "s", ":", "/", "/", "w", "w", "w", ".", "p", "u", "b", "l", "i", "m", "e", "t", "r", "o", ".", "c", "o">>

(* ------------------------- title normalization ------------------------- *)

\* Canonical decomposition of one character.
nfd_char(c) ==
    CASE c = "U+00E9" -> <<"e", "U+0301">>
      [] c = "U+00ED" -> <<"i", "U+0301">>
      [] c = "U+00F1" -> <<"n", "U+0303">>
      [] c = "U+00C1" -> <<"A", "U+0301">>
      [] OTHER -> <<c>>

\* unicodedata.normalize('NFD', s)
nfd(s) == join([k \in DOMAIN s |-> nfd_char(s[k])])

IsCombining(c) == c \in CombiningMarks

IsKept(c) == c \in AsciiLetters \cup AsciiDigits \cup Whitespace

\* re.sub(r'[\u0300-\u036f]', '', s)
strip_marks(s) == SelectSeq(s, LAMBDA c : ~IsCombining(c))

\* re.sub(r'[^A-Za-z0-9\s]', '', s)
strip_other(s) == SelectSeq(s, IsKept)

\* re.sub(r",", " ", s)
commas_to_spaces(s) == [k \in DOMAIN s |-> IF s[k] = "," THEN " " ELSE s[k]]

\* A faulty variant: the character filter applied to the text as it came, not decomposed.
normalize_not_decomposed(titular) ==
    commas_to_spaces(strip_other(strip_marks(titular)))

\* The four steps applied to a heading's text, in the order of the code.
normalize(titular) ==
    LET texto_nfd == nfd(titular)
        titular_sin_tildes == strip_marks(texto_nfd)
        titulo_sin_caracteres == strip_other(titular_sin_tildes)
    IN  commas_to_spaces(titulo_sin_caracteres)

(* ------------------------------ links ---------------------------------- *)

\* enlace after "if not enlace.startswith('http'): enlace = base_url + enlace"
resolve_enlace(href, base_url) ==
    IF ~startswith(href, <<"h", "t", "t", "p">>) THEN base_url \o href ELSE href

RECURSIVE split(_, _)
\* str.split(sep) for a one-character separator
split(s, sep) ==
    IF \A k \in DOMAIN s : s[k] # sep THEN <<s>>
    ELSE LET p == CHOOSE k \in DOMAIN s : s[k] = sep /\ \A j \in 1..(k - 1) : s[j] # sep
         IN  <<SubSeq(s, 1, p - 1)>> \o split(SubSeq(s, p + 1, Len(s)), sep)

\* A faulty variant: the element before the one the code takes (the host).
categoria_off_by_one(enlace) ==
    LET parts == split(enlace, "/")
    IN  IF Len(parts) > 2 THEN parts[3] ELSE << >>

\* parts[3] if len(parts) > 3 else ''
categoria_of(enlace) ==
    LET parts == split(enlace, "/")
    IN  IF Len(parts) > 3 THEN parts[4] ELSE << >>

noticia(titular, href, base_url) ==
    LET enlace == resolve_enlace(href, base_url)
    IN  [Categoria |-> categoria_of(enlace),
         Titular |-> normalize(titular),
         Enlace |-> enlace]

(* --------------------------- the HTML tree ----------------------------- *)

\* A text node (a NavigableString).
Text(s) == [tag |-> "#text", class |-> {}, href |-> << >>, kids |-> << >>, text |-> s]

\* An element (a Tag): href is << >> without the attribute, <<value>> with it.
Elem(tag, class, href, kids) ==
    [tag |-> tag, class |-> class, href |-> href, kids |-> kids, text |-> << >>]

RECURSIVE descendants(_)
\* The nodes below a list of siblings, in document order (Tag.descendants).
descendants(nodes) ==
    IF nodes = << >> THEN << >>
    ELSE <<Head(nodes)>> \o descendants(Head(nodes).kids) \o descendants(Tail(nodes))

\* soup.find_all('article')
find_all_article(soup) ==
    SelectSeq(descendants(soup), LAMBDA n : n.tag = "article")

\* soup.find_all(['h2', 'h3'], class_='c-heading')
find_all_c_heading(soup) ==
    SelectSeq(descendants(soup),
              LAMBDA n : n.tag \in {"h2", "h3"} /\ "c-heading" \in n.class)

\* The first element of a list as an optional value: << >> is None.
first_of(nodes) == IF nodes = << >> THEN << >> ELSE <<Head(nodes)>>

\* tag.find(['h2', 'h3'])
find_heading(node) ==
    first_of(SelectSeq(descendants(node.kids), LAMBDA n : n.tag \in {"h2", "h3"}))

\* tag.find(['a'])
find_a(node) ==
    first_of(SelectSeq(descendants(node.kids), LAMBDA n : n.tag = "a"))

\* tag.find('a', href=True)
find_a_href(node) ==
    first_of(SelectSeq(descendants(node.kids),
                       LAMBDA n : n.tag = "a" /\ n.href # << >>))

RECURSIVE lstrip(_)
lstrip(s) == IF s # << >> /\ Head(s) \in Whitespace THEN lstrip(Tail(s)) ELSE s

RECURSIVE rstrip(_)
rstrip(s) ==
    IF s # << >> /\ s[Len(s)] \in Whitespace THEN rstrip(SubSeq(s, 1, Len(s) - 1)) ELSE s

\* str.strip()
strip(s) == rstrip(lstrip(s))

\* The stripped string of a text node; nothing for an element.
stripped_string(node) == IF node.tag = "#text" THEN strip(node.text) ELSE << >>

\* tag.get_text(strip=True): every string below the tag, stripped, joined by ''.
get_text(node) ==
    LET below == descendants(node.kids)
    IN  join([k \in DOMAIN below |-> stripped_string(below[k])])

(* --------------------------- the two adapters -------------------------- *)

\* One pass of "for article in soup.find_all('article')": what it appends.
eltiempo_article(article) ==
    LET t == find_heading(article)
        a == find_a_href(article)
    IN  IF t = << >> \/ a = << >>
        THEN << >>
        ELSE <<noticia(get_text(t[1]), a[1].href[1], base_url_of(<<"e", "l", "t", "i", "e", "m", "p", "o">>))>>

\* One pass of "for article in soup.find_all(['h2', 'h3'], class_='c-heading')".
publimetro_article(article) ==
    LET t == find_a(article)
        a == find_a_href(article)
    IN  IF a = << >>
        THEN << >>
        ELSE <<noticia(get_text(t[1]), a[1].href[1], base_url_of(<<"p", "u", "b", "l", "i", "m", "e", "t", "r", "o">>))>>

RECURSIVE until_incomplete(_)
until_incomplete(articles) ==
    IF articles = << >> \/ eltiempo_article(Head(articles)) = << >> THEN << >>
    ELSE eltiempo_article(Head(articles)) \o until_incomplete(Tail(articles))

\* A faulty variant: the eltiempo loop leaves at the first article lacking an element
\* (break for continue).
extract_break(periodico, soup) ==
    IF periodico = <<"e", "l", "t", "i", "e", "m", "p", "o">> THEN until_incomplete(find_all_article(soup))
    ELSE LET headings == find_all_c_heading(soup)
         IN  join([k \in DOMAIN headings |-> publimetro_article(headings[k])])

\* noticias of one document, by the branch taken for it.
extract(periodico, soup) ==
    IF periodico = <<"e", "l", "t", "i", "e", "m", "p", "o">>
    THEN LET articles == find_all_article(soup)
         IN  join([k \in DOMAIN articles |-> eltiempo_article(articles[k])])
    ELSE LET headings == find_all_c_heading(soup)
         IN  join([k \in DOMAIN headings |-> publimetro_article(headings[k])])

(* ------------------------------ the CSV -------------------------------- *)

\* The characters that make csv's default dialect quote a field.
NeedsQuote(c) == c \in {",", "\"", "\r", "\n"}

double_quote(c) == IF c = "\"" THEN <<"\"", "\"">> ELSE <<c>>

double_quotes(s) == join([k \in DOMAIN s |-> double_quote(s[k])])

\* One field as csv.writer writes it (QUOTE_MINIMAL, doublequote).
csv_field(s) ==
    IF \E k \in DOMAIN s : NeedsQuote(s[k])
    THEN <<"\"">> \o double_quotes(s) \o <<"\"">>
    ELSE s

\* One row of three fields, with the dialect's line terminator.
csv_row(f1, f2, f3) ==
    csv_field(f1) \o <<",">> \o csv_field(f2) \o <<",">> \o csv_field(f3) \o <<"\r", "\n">>

\* escritor.writerow(noticia)
writerow(fila) == csv_row(fila.Categoria, fila.Titular, fila.Enlace)

\* A faulty variant: nothing is written for a page without noticias.
csv_getvalue_rows_only(noticias) ==
    IF noticias = << >> THEN << >>
    ELSE csv_row(<<"C", "a", "t", "e", "g", "o", "r", "i", "a">>, <<"T", "i", "t", "u", "l", "a", "r">>, <<"E", "n", "l", "a", "c", "e">>)
         \o join([k \in DOMAIN noticias |-> writerow(noticias[k])])

\* csv_buffer.getvalue() after writeheader() and one writerow() per noticia.
csv_getvalue(noticias) ==
    csv_row(<<"C", "a", "t", "e", "g", "o", "r", "i", "a">>, <<"T", "i", "t", "u", "l", "a", "r">>, <<"E", "n", "l", "a", "c", "e">>)
    \o join([k \in DOMAIN noticias |-> writerow(noticias[k])])

\* The UTF-8 bytes of one character; an ASCII character is its own byte.
utf8_char(c) ==
    CASE c = "U+00E9" -> <<"0xC3", "0xA9">>
      [] c = "U+00ED" -> <<"0xC3", "0xAD">>
      [] c = "U+00F1" -> <<"0xC3", "0xB1">>
      [] c = "U+00C1" -> <<"0xC3", "0x81">>
      [] c = "U+00BF" -> <<"0xC2", "0xBF">>
      [] c = "U+00A0" -> <<"0xC2", "0xA0">>
      [] c = "U+0301" -> <<"0xCC", "0x81">>
      [] c = "U+0303" -> <<"0xCC", "0x83">>
      [] OTHER -> <<c>>

\* str.encode('utf-8')
encode_utf8(s) == join([k \in DOMAIN s |-> utf8_char(s[k])])

ContentType == "text/csv"

(* ------------------------- the destination key ------------------------- *)

RECURSIVE decimal(_)
decimal(n) ==
    IF n < 10 THEN <<DigitSeq[n + 1]>>
    ELSE decimal(n \div 10) \o <<DigitSeq[(n % 10) + 1]>>

RECURSIVE zero_pad(_, _)
zero_pad(s, width) == IF Len(s) >= width THEN s ELSE zero_pad(<<"0">> \o s, width)

\* A faulty variant: month and day without their leading zero.
strftime_unpadded(date) ==
    <<"y", "e", "a", "r", "=">> \o decimal(date.year) \o <<"/", "m", "o", "n", "t", "h", "=">> \o decimal(date.month)
    \o <<"/", "d", "a", "y", "=">> \o decimal(date.day)

\* datetime.strftime("year=%Y/month=%m/day=%d")
strftime(date) ==
    <<"y", "e", "a", "r", "=">> \o zero_pad(decimal(date.year), 4)
    \o <<"/", "m", "o", "n", "t", "h", "=">> \o zero_pad(decimal(date.month), 2)
    \o <<"/", "d", "a", "y", "=">> \o zero_pad(decimal(date.day), 2)

\* The f-string that builds csv_key.
csv_key_of(periodico, date) ==
    <<"h", "e", "a", "d", "l", "i", "n", "e", "s", "/", "f", "i", "n", "a", "l", "/", "p", "e", "r", "i", "o", "d", "i", "c", "o", "=">> \o periodico \o <<"/">>
    \o strftime(date) \o <<"/">> \o periodico \o <<".", "c", "s", "v">>

(* ------------------------------- inputs -------------------------------- *)

\* Sequences over S of length at most n.
SeqUpTo(S, n) == UNION {[1..k -> S] : k \in 0..n}

Anchor(href, s) == Elem("a", {}, href, <<Text(s)>>)

Buckets == {"examenfinalbigdata"}

\* Object keys of the handler's runs: raw pages as the download Lambda names
\* them, a page of no known source, an object that is not a page.
KeysSmall ==
    { <<"h", "e", "a", "d", "l", "i", "n", "e", "s", "/", "r", "a", "w", "/", "e", "l", "t", "i", "e", "m", "p", "o", "-", "2", "0", "2", "4", "-", "0", "3", "-", "0", "5", ".", "h", "t", "m", "l">>,
      <<"h", "e", "a", "d", "l", "i", "n", "e", "s", "/", "r", "a", "w", "/", "e", "l", "t", "i", "e", "m", "p", "o", "-", "2", "0", "2", "4", "-", "0", "3", "-", "0", "4", ".", "h", "t", "m", "l">>,
      <<"h", "e", "a", "d", "l", "i", "n", "e", "s", "/", "r", "a", "w", "/", "p", "u", "b", "l", "i", "m", "e", "t", "r", "o", "-", "2", "0", "2", "4", "-", "0", "3", "-", "0", "5", ".", "h", "t", "m", "l">>,
      <<"h", "e", "a", "d", "l", "i", "n", "e", "s", "/", "r", "a", "w", "/", "s", "e", "m", "a", "n", "a", "-", "2", "0", "2", "4", "-", "0", "3", "-", "0", "5", ".", "h", "t", "m", "l">>,
      <<"h", "e", "a", "d", "l", "i", "n", "e", "s", "/", "r", "a", "w", "/", "n", "o", "t", "a", "s", ".", "t", "x", "t">> }

\* Object keys for the resolution rule: every prefix, name and suffix.
KeyPrefixes == { << >>, <<"x">>, <<"h", "e", "a", "d", "l", "i", "n", "e", "s", "/", "r", "a", "w", "/">>, <<"r", "a", "w", ".">> }

KeyNames == { <<"e", "l", "t", "i", "e", "m", "p", "o">>, <<"E", "L", "T", "I", "E", "M", "P", "O">>, <<"E", "l", "T", "i", "e", "m", "p", "o">>, <<"p", "u", "b", "l", "i", "m", "e", "t", "r", "o">>, <<"P", "u", "b", "l", "i", "m", "e", "t", "r", "o">>, <<"s", "e", "m", "a", "n", "a">> }

KeySuffixes == { <<".", "h", "t", "m", "l">>, <<"_", "2", "0", "2", "4", ".", "h", "t", "m", "l">>, <<"-", "2", "0", "2", "4", "-", "0", "3", "-", "0", "5", ".", "h", "t", "m", "l">>, <<".", "H", "T", "M", "L">>, <<"2", ".", "h", "t", "m", "l">>, <<".", "t", "x", "t">> }

KeysRich ==
    {p \o n \o s : p \in KeyPrefixes, n \in KeyNames, s \in KeySuffixes}

\* eltiempo markup: article containers, complete or lacking an element.
ArticleShapes ==
    { Elem("article", {}, << >>,
           <<Elem("h2", {}, << >>, <<Text(<<"U", "n", "o">>)>>), Anchor(<<<<"/", "m", "u", "n", "d", "o", "/", "u", "n", "o">>>>, <<"l", "e", "e", "r">>)>>),
      Elem("article", {}, << >>,
           <<Anchor(<<<<"h", "t", "t", "p", "s", ":", "/", "/", "w", "w", "w", ".", "e", "l", "t", "i", "e", "m", "p", "o", ".", "c", "o", "m", "/", "d", "e", "p", "o", "r", "t", "e", "s", "/", "d", "o", "s">>>>, <<" ", "v", "e", "r", " ">>),
             Elem("h3", {}, << >>, <<Text(<<" ", "D", "o", "s", " ">>)>>)>>),
      Elem("article", {}, << >>,
           <<Elem("h3", {}, << >>, <<Text(<<"T", "r", "e", "s">>)>>), Anchor(<< >>, <<"a", "n", "c", "l", "a">>),
             Anchor(<<<<"/", "c", "u", "l", "t", "u", "r", "a", "/", "t", "r", "e", "s">>>>, <<"l", "e", "e", "r">>)>>),
      Elem("article", {}, << >>, <<Elem("h2", {}, << >>, <<Text(<<"P", "r", "o", "m", "o">>)>>)>>),
      Elem("article", {}, << >>, <<Anchor(<<<<"/", "v", "i", "d", "a", "/", "s", "o", "l", "o">>>>, <<"s", "o", "l", "o", " ", "e", "n", "l", "a", "c", "e">>)>>),
      Elem("article", {}, << >>,
           <<Elem("h2", {}, << >>, <<Text(<<"S", "i", "n">>)>>), Anchor(<< >>, <<"s", "i", "n", " ", "h", "r", "e", "f">>)>>),
      Elem("div", {}, << >>,
           <<Elem("article", {}, << >>,
                  <<Elem("h2", {}, << >>, <<Anchor(<<<<"/", "b", "o", "g", "o", "t", "a", "/", "c", "u", "a", "t", "r", "o">>>>, <<"C", "u", "a", "t", "r", "o">>)>>)>>)>>) }

\* publimetro markup: headings, marked or not, with or without a link.
HeadingShapes ==
    { Elem("h2", {"c-heading"}, << >>, <<Anchor(<<<<"/", "n", "o", "t", "i", "c", "i", "a", "s", "/", "u", "n", "o">>>>, <<"U", "n", "o">>)>>),
      Elem("h3", {"c-heading"}, << >>,
           <<Anchor(<< >>, <<"A", "n", "c", "l", "a">>), Anchor(<<<<"/", "d", "e", "p", "o", "r", "t", "e", "s", "/", "d", "o", "s">>>>, <<"D", "o", "s">>)>>),
      Elem("h2", {"c-heading"}, << >>, <<Text(<<"S", "i", "n", " ", "e", "n", "l", "a", "c", "e">>)>>),
      Elem("h2", {"titulo"}, << >>, <<Anchor(<<<<"/", "x", "/", "y">>>>, <<"N", "o", " ", "m", "a", "r", "c", "a", "d", "o">>)>>),
      Elem("h2", {"c-heading", "big"}, << >>, <<Anchor(<< >>, <<"s", "o", "l", "o", " ", "a", "n", "c", "l", "a">>)>>),
      Elem("div", {}, << >>,
           <<Elem("h3", {"c-heading"}, << >>,
                  <<Anchor(<<<<"h", "t", "t", "p", "s", ":", "/", "/", "w", "w", "w", ".", "p", "u", "b", "l", "i", "m", "e", "t", "r", "o", ".", "c", "o", "/", "m", "u", "n", "d", "o", "/", "s", "e", "i", "s">>>>, <<"S", "e", "i", "s">>)>>)>>) }

\* href values found in markup.
Hrefs ==
    { <<"/", "m", "u", "n", "d", "o", "/", "a", "r", "t", "i", "c", "u", "l", "o", "-", "1">>, <<"h", "t", "t", "p", "s", ":", "/", "/", "x", ".", "c", "o", "m">>, <<"h", "t", "t", "p", ":", "/", "/", "x", ".", "c", "o", "m", "/", "a", "/", "b">>, <<"m", "u", "n", "d", "o", "/", "a", "r", "t", "i", "c", "u", "l", "o", "-", "2">>,
      <<"m", "a", "i", "l", "t", "o", ":", "a", "@", "b", ".", "c", "o">>, <<"/", "/", "c", "d", "n", ".", "x", ".", "c", "o", "m", "/", "a">>, << >>, <<"#">>, <<"/">>,
      <<"h", "t", "t", "p", "s", ":", "/", "/", "w", "w", "w", ".", "e", "l", "t", "i", "e", "m", "p", "o", ".", "c", "o", "m", "/", "c", "o", "l", "o", "m", "b", "i", "a", "/", "n", "o", "t", "a", ",", "1">> }

\* Heading texts.
Titulares ==
    { <<"C", "a", "f", "U+00E9", ",", " ", "e", "c", "o", "n", "o", "m", "U+00ED", "a">>, <<" ", "N", "i", "U+00F1", "o", " ", "2", "0", "2", "4", " ">>, <<"U+00BF", "Q", "u", "U+00E9", "?">>, <<"A", ",", "B">>, <<"L", "U+00ED", "n", "e", "a", "\n", "u", "n", "o">>, <<"U+00C1", "g", "i", "l", " ", "\"", "y", "a", "\"">>,
      <<"C", "a", "f", "e">> \o <<"U+0301">>, <<"a", " ", "b">>, <<".", ".", ".">> }

\* Documents that vary the structure, the href or the heading text.
DocsRich ==
    SeqUpTo(ArticleShapes, MaxNodes) \cup SeqUpTo(HeadingShapes, MaxNodes)
    \cup { <<Elem("article", {}, << >>,
                  <<Elem("h2", {}, << >>, <<Text(<<"T">>)>>), Anchor(<<h>>, <<"t">>)>>),
             Elem("h2", {"c-heading"}, << >>, <<Anchor(<<h>>, <<"T">>)>>)>> : h \in Hrefs }
    \cup { <<Elem("article", {}, << >>,
                  <<Elem("h2", {}, << >>, <<Text(s)>>), Anchor(<<<<"/", "a", "/", "b">>>>, <<"t">>)>>),
             Elem("h3", {"c-heading"}, << >>, <<Anchor(<<<<"/", "a", "/", "b">>>>, s)>>)>> : s \in Titulares }

\* Documents of the handler's runs: a page where no node matches, and a page
\* with one publimetro headline and one eltiempo article.
DocsSmall ==
    { << >>,
      <<Elem("h2", {"c-heading"}, << >>, <<Anchor(<<<<"/", "n", "o", "t", "i", "c", "i", "a", "s", "/", "u", "n", "o">>>>, <<"U", "n", "o">>)>>),
        Elem("article", {}, << >>,
             <<Elem("h3", {}, << >>, <<Text(<<"D", "o", "s">>)>>), Anchor(<<<<"/", "d", "e", "p", "o", "r", "t", "e", "s", "/", "d", "o", "s">>>>, <<"l", "e", "e", "r">>)>>)>> }

\* What get_object can return for a key: bytes that decode to a page, or not.
Objects(Docs) ==
    {[utf8 |-> FALSE, soup |-> << >>]} \cup {[utf8 |-> TRUE, soup |-> d] : d \in Docs}

Records(Keys) == [bucket : Buckets, key : Keys]

\* The (bucket, key) pairs of the event's records whose key ends in .html.
HtmlRefs(ev) == {<<ev[k].bucket, ev[k].key>> : k \in {j \in DOMAIN ev : is_html_key(ev[j].key)}}

\* The date of an ordinary run, and the last day of a year.
RunDate == [year |-> 2024, month |-> 3, day |-> 5]

YearEnd == [year |-> 2024, month |-> 12, day |-> 31]

\* The dates datetime.now() gives when an invocation starts.
StartDates == {RunDate, YearEnd}

days_in_month(date) ==
    IF date.month = 2
    THEN (IF date.year % 4 = 0 /\ (date.year % 100 # 0 \/ date.year % 400 = 0) THEN 29 ELSE 28)
    ELSE IF date.month \in {4, 6, 9, 11} THEN 30 ELSE 31

next_day(date) ==
    IF date.day < days_in_month(date) THEN [date EXCEPT !.day = @ + 1]
    ELSE IF date.month < 12 THEN [date EXCEPT !.month = @ + 1, !.day = 1]
    ELSE [year |-> date.year + 1, month |-> 1, day |-> 1]

(* --------------------------- the handler ------------------------------- *)

InitWith(Events, Docs) ==
    /\ event \in Events
    /\ s3_objects \in [HtmlRefs(event) -> Objects(Docs)]
    /\ now \in StartDates
    /\ midnight = FALSE
    /\ i = 1
    /\ pc = "loop"
    /\ result = "pending"
    /\ log = << >>
    /\ puts = << >>
    /\ s3_final = << >>

\* An invocation with an event of up to MaxRecords records.
Init == InitWith(SeqUpTo(Records(KeysSmall), MaxRecords), DocsSmall)

\* An invocation with one record, over the object keys.
InitKeys == InitWith([1..1 -> Records(KeysRich)], DocsSmall)

\* An invocation with one record, over the documents.
InitDocs == InitWith([1..1 -> Records(KeysSmall)], DocsRich)

record == event[i]

bucket_name == record.bucket

object_key == record.key

InLoop == pc = "loop" /\ i <= Len(event)

\* One iteration's entry in the run's history.
Entry(outcome, soup, periodico, noticias) ==
    [bucket_name |-> bucket_name, object_key |-> object_key, outcome |-> outcome,
     soup |-> soup, periodico |-> periodico, noticias |-> noticias, date |-> now]

\* The iteration ends at "continue" or at the end of the loop body.
Continue(entry) ==
    /\ log' = Append(log, entry)
    /\ i' = i + 1
    /\ UNCHANGED <<event, s3_objects, now, midnight, pc, result>>

\* The key does not end in .html: the record is passed over.
SkipNotHtml ==
    /\ InLoop
    /\ ~is_html_key(object_key)
    /\ Continue(Entry("not_html", << >>, << >>, << >>))
    /\ UNCHANGED <<puts, s3_final>>

\* get_object or read() raises.
ReadFails ==
    /\ InLoop
    /\ is_html_key(object_key)
    /\ Continue(Entry("read_failed", << >>, << >>, << >>))
    /\ UNCHANGED <<puts, s3_final>>

\* The bytes are not UTF-8: decode raises inside the same try.
DecodeFails ==
    /\ InLoop
    /\ is_html_key(object_key)
    /\ ~s3_objects[<<bucket_name, object_key>>].utf8
    /\ Continue(Entry("decode_failed", << >>, << >>, << >>))
    /\ UNCHANGED <<puts, s3_final>>

\* The key ends in .html and the object was read and decoded.
Readable ==
    /\ InLoop
    /\ is_html_key(object_key)
    /\ s3_objects[<<bucket_name, object_key>>].utf8

\* BeautifulSoup(html_content, 'html.parser')
soup == s3_objects[<<bucket_name, object_key>>].soup

\* The else branch: return None.
Unsupported ==
    /\ Readable
    /\ periodico_of(object_key) = << >>
    /\ log' = Append(log, Entry("unsupported", soup, << >>, << >>))
    /\ pc' = "done"
    /\ result' = "None"
    /\ UNCHANGED <<event, s3_objects, now, midnight, i, puts, s3_final>>

\* The arguments of s3.put_object, and whether the call succeeded.
PutCall(csv_key, body, ok) ==
    [record |-> i, Bucket |-> bucket_name, Key |-> csv_key, Body |-> body,
     ContentType |-> ContentType, ok |-> ok]

\* The destination prefix after a put_object that succeeded.
put_object(store, bucket, key, body) ==
    [k \in DOMAIN store \cup {<<bucket, key>>} |->
        IF k = <<bucket, key>> THEN body ELSE store[k]]

\* Extraction, serialization and the put_object call, which succeeds or raises.
Process(ok) ==
    /\ Readable
    /\ LET periodico == periodico_of(object_key)
       IN  /\ periodico # << >>
           /\ LET noticias == extract(periodico, soup)
                  csv_key == csv_key_of(periodico, now)
                  body == encode_utf8(csv_getvalue(noticias))
              IN  /\ puts' = Append(puts, PutCall(csv_key, body, ok))
                  /\ s3_final' = IF ok THEN put_object(s3_final, bucket_name, csv_key, body)
                                 ELSE s3_final
                  /\ Continue(Entry(IF ok THEN "written" ELSE "write_failed",
                                    soup, periodico, noticias))

PutOk == Process(TRUE)

PutFails == Process(FALSE)

\* The loop is over: the handler returns statusCode 200.
Return200 ==
    /\ pc = "loop"
    /\ i > Len(event)
    /\ pc' = "done"
    /\ result' = "200"
    /\ UNCHANGED <<event, s3_objects, now, midnight, i, log, puts, s3_final>>

\* Midnight passes between two iterations, at most once in an invocation.
Tick ==
    /\ pc = "loop"
    /\ ~midnight
    /\ now' = next_day(now)
    /\ midnight' = TRUE
    /\ UNCHANGED <<event, s3_objects, i, pc, result, log, puts, s3_final>>

Next ==
    \/ SkipNotHtml
    \/ ReadFails
    \/ DecodeFails
    \/ Unsupported
    \/ PutOk
    \/ PutFails
    \/ Return200
    \/ Tick

Spec == Init /\ [][Next]_vars

SpecKeys == InitKeys /\ [][Next]_vars

SpecDocs == InitDocs /\ [][Next]_vars

(* ------------------- what the properties speak about ------------------- *)

\* The iteration read the page and took the branch of a known source.
Processed(e) == e.outcome \in {"written", "write_failed"}

\* The put_object calls issued for record k of the event.
PutsOf(k) == SelectSeq(puts, LAMBDA c : c.record = k)

HasHeadingAndLink(article) ==
    find_heading(article) # << >> /\ find_a_href(article) # << >>

HasLink(heading) == find_a_href(heading) # << >>

\* The nodes of a processed page that carry a headline, in document order.
SourceNodes(e) ==
    IF e.periodico = <<"e", "l", "t", "i", "e", "m", "p", "o">>
    THEN SelectSeq(find_all_article(e.soup), HasHeadingAndLink)
    ELSE SelectSeq(find_all_c_heading(e.soup), HasLink)

\* The href of a node's link element.
HrefOf(node) == find_a_href(node)[1].href[1]

\* The text the branch takes the title from.
TitleTextOf(e, node) ==
    IF e.periodico = <<"e", "l", "t", "i", "e", "m", "p", "o">> THEN get_text(find_heading(node)[1])
    ELSE get_text(find_a(node)[1])

\* s contains word, whatever the letter case and the neighbours.
ContainsIgnoreCase(s, word) ==
    \E p \in 1..(Len(s) - Len(word) + 1) : lower(SubSeq(s, p, p + Len(word) - 1)) = word

\* RFC 3986: scheme = ALPHA *( ALPHA / DIGIT / "+" / "-" / "." ), then ":".
HasScheme(s) ==
    \E p \in 2..Len(s) :
        /\ s[p] = ":"
        /\ s[1] \in AsciiLetters
        /\ \A j \in 2..(p - 1) : s[j] \in AsciiLetters \cup AsciiDigits \cup {"+", "-", "."}

\* The base letter of an accented one.
BaseLetter(c) ==
    CASE c = "U+00E9" -> "e" [] c = "U+00ED" -> "i" [] c = "U+00F1" -> "n"
      [] c = "U+00C1" -> "A" [] OTHER -> c

\* What is left of one character of a title: the base letter of an accented
\* letter, an ASCII letter, digit or whitespace itself, nothing of the rest.
TitleChar(c) ==
    IF c \in AccentedLetters THEN <<BaseLetter(c)>>
    ELSE IF c \in AsciiLetters \cup AsciiDigits \cup Whitespace THEN <<c>>
    ELSE << >>

ExpectedTitle(s) == join([k \in DOMAIN s |-> TitleChar(s[k])])

\* The positions of "/" in s, in increasing order.
Slashes(s) == SelectSeq([k \in DOMAIN s |-> k], LAMBDA k : s[k] = "/")

\* The text between the third "/" and the fourth (or the end); '' with fewer than three.
FourthSegment(s) ==
    LET at == Slashes(s)
    IN  IF Len(at) < 3 THEN << >>
        ELSE SubSeq(s, at[3] + 1, IF Len(at) > 3 THEN at[4] - 1 ELSE Len(s))

TwoDigits(n) == <<DigitSeq[(n \div 10) + 1], DigitSeq[(n % 10) + 1]>>

FourDigits(n) == TwoDigits(n \div 100) \o TwoDigits(n % 100)

\* headlines/final/periodico={sourceId}/year={YYYY}/month={MM}/day={DD}/{sourceId}.csv
ExpectedKey(sourceId, date) ==
    <<"h", "e", "a", "d", "l", "i", "n", "e", "s", "/", "f", "i", "n", "a", "l", "/", "p", "e", "r", "i", "o", "d", "i", "c", "o", "=">> \o sourceId \o <<"/", "y", "e", "a", "r", "=">> \o FourDigits(date.year)
    \o <<"/", "m", "o", "n", "t", "h", "=">> \o TwoDigits(date.month) \o <<"/", "d", "a", "y", "=">> \o TwoDigits(date.day)
    \o <<"/">> \o sourceId \o <<".", "c", "s", "v">>

\* The last successful put_object to (bucket, key), as a set of at most one call.
LastPut(bucket, key) ==
    {puts[k] : k \in {j \in DOMAIN puts :
        /\ puts[j].ok /\ puts[j].Bucket = bucket /\ puts[j].Key = key
        /\ \A m \in (j + 1)..Len(puts) :
              ~(puts[m].ok /\ puts[m].Bucket = bucket /\ puts[m].Key = key)}}

(* ----------------------------- properties ------------------------------ *)

\* C1: when a .html record's key matches neither known source, only that
\* document is skipped: the handler returns without raising, and by then every
\* later record of the event has been handled.
C1_UnsupportedSkipsOnlyThatDocument ==
    pc = "done" =>
        \A k \in DOMAIN log :
            log[k].outcome = "unsupported" =>
                /\ result \in {"None", "200"}
                /\ \A j \in (k + 1)..Len(event) : j \in DOMAIN log

\* The read, the decoding or the write of the document failed.
Failed(e) == e.outcome \in {"read_failed", "decode_failed", "write_failed"}

\* C2: a document whose read, decode or write fails gets no CSV written; in a
\* run where documents failed, every record of the event has been attempted
\* when the handler returns, and it returns statusCode 200.
C2_FailuresAbsorbed ==
    /\ \A k \in DOMAIN log :
          /\ log[k].outcome \in {"read_failed", "decode_failed"} => PutsOf(k) = << >>
          /\ log[k].outcome = "write_failed" =>
                \A c \in Range(PutsOf(k)) : ~c.ok
    /\ (pc = "done" /\ \E k \in DOMAIN log : Failed(log[k]))
          => (Len(log) = Len(event) /\ result = "200")

\* C3: every readable page whose key contains 'eltiempo' (resp. 'publimetro')
\* in any letter case, whatever surrounds it, takes the eltiempo (resp.
\* publimetro) branch.
C3_SubstringSelectsBranch ==
    \A k \in DOMAIN log :
        log[k].outcome \in {"unsupported", "written", "write_failed"} =>
            /\ ContainsIgnoreCase(log[k].object_key, <<"e", "l", "t", "i", "e", "m", "p", "o">>) =>
                  log[k].periodico = <<"e", "l", "t", "i", "e", "m", "p", "o">>
            /\ ContainsIgnoreCase(log[k].object_key, <<"p", "u", "b", "l", "i", "m", "e", "t", "r", "o">>) =>
                  log[k].periodico = <<"p", "u", "b", "l", "i", "m", "e", "t", "r", "o">>

\* C4: every emitted link is an absolute URL: the href itself when the href
\* starts with a scheme, otherwise the base URL followed by the href, which
\* then continues the base URL with a path, a query or a fragment.
C4_LinkIsAbsolute ==
    \A k \in DOMAIN log :
        Processed(log[k]) =>
            \A n \in DOMAIN log[k].noticias \cap DOMAIN SourceNodes(log[k]) :
                LET href == HrefOf(SourceNodes(log[k])[n])
                    enlace == log[k].noticias[n].Enlace
                IN  /\ HasScheme(enlace)
                    /\ HasScheme(href) => enlace = href
                    /\ ~HasScheme(href) =>
                          /\ enlace = base_url_of(log[k].periodico) \o href
                          /\ href = << >> \/ href[1] \in {"/", "?", "#"}

\* C5 (as stated): the heading text 'Caf\u00e9, econom\u00eda' yields the title 'Caf economa'.
C5_ExampleAsStated ==
    \A k \in DOMAIN log :
        Processed(log[k]) =>
            \A n \in DOMAIN log[k].noticias \cap DOMAIN SourceNodes(log[k]) :
                TitleTextOf(log[k], SourceNodes(log[k])[n]) = <<"C", "a", "f", "U+00E9", ",", " ", "e", "c", "o", "n", "o", "m", "U+00ED", "a">>
                    => log[k].noticias[n].Titular = <<"C", "a", "f", " ", "e", "c", "o", "n", "o", "m", "a">>

\* C5 (amended): the heading text 'Caf\u00e9, econom\u00eda' yields the title
\* 'Cafe economia'; every title is its source text with each accented letter
\* replaced by its base letter (decomposition, then the marks stripped), then
\* every character that is not an ASCII letter, digit or whitespace removed,
\* so that no comma is left for the last step to replace.
C5_TitleNormalized ==
    \A k \in DOMAIN log :
        Processed(log[k]) =>
            \A n \in DOMAIN log[k].noticias \cap DOMAIN SourceNodes(log[k]) :
                LET text == TitleTextOf(log[k], SourceNodes(log[k])[n])
                    titular == log[k].noticias[n].Titular
                IN  /\ titular = ExpectedTitle(text)
                    /\ text = <<"C", "a", "f", "U+00E9", ",", " ", "e", "c", "o", "n", "o", "m", "U+00ED", "a">> => titular = <<"C", "a", "f", "e", " ", "e", "c", "o", "n", "o", "m", "i", "a">>
                    /\ \A c \in Range(titular) :
                          c \in AsciiLetters \cup AsciiDigits \cup Whitespace

C5_Witness ==
    \E k \in DOMAIN log :
        /\ Processed(log[k])
        /\ log[k].periodico = <<"e", "l", "t", "i", "e", "m", "p", "o">>
        /\ Len(log[k].noticias) = 1
        /\ get_text(find_heading(SourceNodes(log[k])[1])[1]) = <<"C", "a", "f", "U+00E9", ",", " ", "e", "c", "o", "n", "o", "m", "U+00ED", "a">>
        /\ log[k].noticias[1].Titular = <<"C", "a", "f", "e", " ", "e", "c", "o", "n", "o", "m", "i", "a">>

\* C6: the key of every CSV write is
\* headlines/final/periodico={sourceId}/year={YYYY}/month={MM}/day={DD}/{sourceId}.csv
\* for the resolved source and the date of the write, month and day in two
\* digits; two writes for the same source on the same date have the same key,
\* and the object under a key is the body of the last successful write to it.
C6_KeyDeterministic ==
    /\ \A k \in DOMAIN puts :
          LET e == log[puts[k].record]
          IN  /\ puts[k].Key = ExpectedKey(e.periodico, e.date)
              /\ (e.periodico = <<"e", "l", "t", "i", "e", "m", "p", "o">> /\ e.date = RunDate)
                    => puts[k].Key =
                         <<"h", "e", "a", "d", "l", "i", "n", "e", "s", "/", "f", "i", "n", "a", "l", "/", "p", "e", "r", "i", "o", "d", "i", "c", "o", "=", "e", "l", "t", "i", "e", "m", "p", "o", "/", "y", "e", "a", "r", "=", "2", "0", "2", "4", "/", "m", "o", "n", "t", "h", "=", "0", "3", "/", "d", "a", "y", "=", "0", "5", "/", "e", "l", "t", "i", "e", "m", "p", "o", ".", "c", "s", "v">>
    /\ \A j, k \in DOMAIN puts :
          (log[puts[j].record].periodico = log[puts[k].record].periodico
              /\ log[puts[j].record].date = log[puts[k].record].date)
                => puts[j].Key = puts[k].Key
    /\ \A c \in Range(puts) :
          c.ok => /\ <<c.Bucket, c.Key>> \in DOMAIN s3_final
                  /\ \E last \in LastPut(c.Bucket, c.Key) :
                        s3_final[<<c.Bucket, c.Key>>] = last.Body

C6_Witness ==
    \E j, k \in DOMAIN puts :
        /\ j < k
        /\ puts[j].ok /\ puts[k].ok
        /\ puts[j].Key = puts[k].Key
        /\ puts[j].Body # puts[k].Body
        /\ s3_final[<<puts[k].Bucket, puts[k].Key>>] = puts[k].Body

\* C7: for a readable page of a known source in which no node matches, exactly
\* one CSV write is issued, its content the header row
\* 'Categoria,Titular,Enlace' and no data row, with content type text/csv.
C7_EmptyPageWritesHeader ==
    \A k \in DOMAIN log :
        (Processed(log[k]) /\ SourceNodes(log[k]) = << >>) =>
            /\ Len(PutsOf(k)) = 1
            /\ PutsOf(k)[1].Body = <<"C", "a", "t", "e", "g", "o", "r", "i", "a", ",", "T", "i", "t", "u", "l", "a", "r", ",", "E", "n", "l", "a", "c", "e", "\r", "\n">>
            /\ PutsOf(k)[1].ContentType = "text/csv"
            /\ PutsOf(k)[1].Key = ExpectedKey(log[k].periodico, log[k].date)

C7_Witness ==
    \E k \in DOMAIN log :
        /\ log[k].outcome = "written"
        /\ log[k].soup = << >>
        /\ Len(PutsOf(k)) = 1
        /\ s3_final[<<PutsOf(k)[1].Bucket, PutsOf(k)[1].Key>>] = <<"C", "a", "t", "e", "g", "o", "r", "i", "a", ",", "T", "i", "t", "u", "l", "a", "r", ",", "E", "n", "l", "a", "c", "e", "\r", "\n">>

\* C8: every record's category is the element at index 3 of its link split on
\* '/', and '' when the split has fewer than 4 elements; the href
\* '/mundo/articulo-1' of an eltiempo page gives 'mundo', the link
\* 'https://x.com' gives ''.
C8_CategoryIsFourthSegment ==
    \A k \in DOMAIN log :
        Processed(log[k]) =>
            \A n \in DOMAIN log[k].noticias :
                LET enlace == log[k].noticias[n].Enlace
                    categoria == log[k].noticias[n].Categoria
                IN  /\ categoria = FourthSegment(enlace)
                    /\ Len(Slashes(enlace)) < 3 => categoria = << >>
                    /\ enlace = <<"h", "t", "t", "p", "s", ":", "/", "/", "x", ".", "c", "o", "m">> => categoria = << >>
                    /\ enlace = <<"h", "t", "t", "p", "s", ":", "/", "/", "w", "w", "w", ".", "e", "l", "t", "i", "e", "m", "p", "o", ".", "c", "o", "m", "/", "m", "u", "n", "d", "o", "/", "a", "r", "t", "i", "c", "u", "l", "o", "-", "1">>
                          => categoria = <<"m", "u", "n", "d", "o">>

C8_Witness ==
    \E k \in DOMAIN log :
        /\ Processed(log[k])
        /\ log[k].periodico = <<"e", "l", "t", "i", "e", "m", "p", "o">>
        /\ Len(log[k].noticias) = 1
        /\ HrefOf(SourceNodes(log[k])[1]) = <<"/", "m", "u", "n", "d", "o", "/", "a", "r", "t", "i", "c", "u", "l", "o", "-", "1">>
        /\ log[k].noticias[1].Enlace = <<"h", "t", "t", "p", "s", ":", "/", "/", "w", "w", "w", ".", "e", "l", "t", "i", "e", "m", "p", "o", ".", "c", "o", "m", "/", "m", "u", "n", "d", "o", "/", "a", "r", "t", "i", "c", "u", "l", "o", "-", "1">>
        /\ log[k].noticias[1].Categoria = <<"m", "u", "n", "d", "o">>

\* The CSV row of an eltiempo article that has a heading and a link.
RowOfArticle(article) ==
    writerow(noticia(get_text(find_heading(article)[1]), HrefOf(article),
                     <<"h", "t", "t", "p", "s", ":", "/", "/", "w", "w", "w", ".", "e", "l", "t", "i", "e", "m", "p", "o", ".", "c", "o", "m">>))

\* C9: the data rows of the CSV of an eltiempo page are the article nodes that
\* have both a heading and a link with href, one row per such node, in
\* document order.
C9_RowsAreCompleteArticles ==
    \A k \in DOMAIN log :
        (Processed(log[k]) /\ log[k].periodico = <<"e", "l", "t", "i", "e", "m", "p", "o">>) =>
            LET articles == SelectSeq(find_all_article(log[k].soup), HasHeadingAndLink)
            IN  /\ Len(log[k].noticias) = Len(articles)
                /\ Len(PutsOf(k)) = 1
                /\ PutsOf(k)[1].Body =
                      encode_utf8(<<"C", "a", "t", "e", "g", "o", "r", "i", "a", ",", "T", "i", "t", "u", "l", "a", "r", ",", "E", "n", "l", "a", "c", "e", "\r", "\n">>
                                  \o join([n \in DOMAIN articles |-> RowOfArticle(articles[n])]))

\* A page with an article lacking an element and then a complete one: one
\* row, of the second article.
C9_Witness ==
    \E k \in DOMAIN log :
        /\ log[k].outcome = "written"
        /\ log[k].periodico = <<"e", "l", "t", "i", "e", "m", "p", "o">>
        /\ Len(find_all_article(log[k].soup)) = 2
        /\ ~HasHeadingAndLink(find_all_article(log[k].soup)[1])
        /\ HasHeadingAndLink(find_all_article(log[k].soup)[2])
        /\ Len(log[k].noticias) = 1
        /\ log[k].noticias[1].Enlace
              = resolve_enlace(HrefOf(find_all_article(log[k].soup)[2]), <<"h", "t", "t", "p", "s", ":", "/", "/", "w", "w", "w", ".", "e", "l", "t", "i", "e", "m", "p", "o", ".", "c", "o", "m">>)

\* C10: in the publimetro branch every marked heading with a link element
\* yields one record whose title and link come from that same element; a
\* heading without a link element yields none.
C10_TitleAndLinkFromSameAnchor ==
    \A k \in DOMAIN log :
        (Processed(log[k]) /\ log[k].periodico = <<"p", "u", "b", "l", "i", "m", "e", "t", "r", "o">>) =>
            LET headings == SelectSeq(find_all_c_heading(log[k].soup), HasLink)
            IN  /\ Len(log[k].noticias) = Len(headings)
                /\ \A n \in DOMAIN headings :
                      LET link == find_a_href(headings[n])[1]
                      IN  /\ log[k].noticias[n].Titular = normalize(get_text(link))
                          /\ log[k].noticias[n].Enlace
                                = resolve_enlace(link.href[1], <<"h", "t", "t", "p", "s", ":", "/", "/", "w", "w", "w", ".", "p", "u", "b", "l", "i", "m", "e", "t", "r", "o", ".", "c", "o">>)

=============================================================================
